---- MODULE Spec2Model ----
(***************************************************************************)
(* A model of app.py: the story engines, the illustration provider, the    *)
(* narration provider, build_video and the export loop of ui().            *)
(*                                                                         *)
(* Strings the program computes with (titles, slugs, file names) are       *)
(* sequences of one-character strings.  Durations are in milliseconds.     *)
(***************************************************************************)
EXTENDS Integers, Sequences, FiniteSets, TLC

(***************************************************************************)
(* Bounds of the model.                                                    *)
(***************************************************************************)
MaxStoryScenes == 10      \* largest num_scenes given to the engines alone
MaxNumScenes == 6         \* largest num_scenes picked on the form
MaxMinutes == 2           \* largest "minutes" given to the engines alone
MaxRuns == 2              \* concurrent callers of build_video

(***************************************************************************)
(* Program constants.                                                      *)
(***************************************************************************)
MinNumScenes == 6         \* st.slider("Number of Scenes", 6, 20, 8)
MinMinutes == 1           \* st.slider("Approx Duration (minutes)", 1, 10, 2)
MinDurMs == 3500          \* max(3.5, ...)
MaxDurMs == 10000         \* min(10.0, ...)
RateWpm == 170            \* tts_pyttsx3(..., rate_wpm=170)
DefaultAge == 5           \* st.slider("Target Age", 3, 9, 5)

Min(a, b) == IF a < b THEN a ELSE b
Max(a, b) == IF a > b THEN a ELSE b

(***************************************************************************)
(* Strings.                                                                *)
(***************************************************************************)
Lower(c) ==
    CASE c = "A" -> "a" [] c = "G" -> "g" [] c = "I" -> "i" [] c = "L" -> "l"
      [] c = "M" -> "m" [] c = "S" -> "s" [] c = "T" -> "t" [] c = "Y" -> "y"
      [] OTHER -> c

Upper(c) ==
    CASE c = "a" -> "A" [] c = "g" -> "G" [] c = "i" -> "I" [] c = "l" -> "L"
      [] c = "m" -> "M" [] c = "s" -> "S" [] c = "t" -> "T" [] c = "y" -> "Y"
      [] OTHER -> c

Alnum ==
    {"a", "d", "e", "g", "i", "k", "l", "m", "n", "o", "r", "s", "t", "u", "v",
     "x", "y", "1", "6", "9"}

IsAlnum(c) == Lower(c) \in Alnum

\* python-slugify: lower-case, every run of other characters becomes one "-",
\* no "-" at either end.
RECURSIVE SlugFrom(_, _, _)
SlugFrom(s, i, acc) ==
    IF i > Len(s) THEN acc
    ELSE IF IsAlnum(s[i]) THEN SlugFrom(s, i + 1, Append(acc, Lower(s[i])))
    ELSE IF acc = <<>> \/ acc[Len(acc)] = "-" THEN SlugFrom(s, i + 1, acc)
    ELSE SlugFrom(s, i + 1, Append(acc, "-"))

StripTail(s) ==
    IF s # <<>> /\ s[Len(s)] = "-" THEN SubSeq(s, 1, Len(s) - 1) ELSE s

slugify(s) == StripTail(SlugFrom(s, 1, <<>>))

\* str.title(): the first letter of every word in upper case, the rest lower.
TitleCase(s) ==
    [i \in 1..Len(s) |->
        IF i = 1 \/ ~IsAlnum(s[i - 1]) THEN Upper(s[i]) ELSE Lower(s[i])]

\* Number of words of a string (runs of non-blank characters).
WordsIn(s) ==
    Cardinality({i \in 1..Len(s) : s[i] # " " /\ (i = 1 \/ s[i - 1] = " ")})

\* Python's seq[:n] for n >= 0.
Take(s, n) == SubSeq(s, 1, Min(n, Len(s)))

(***************************************************************************)
(* Scene and the rule-based story engine.                                  *)
(***************************************************************************)
Scene(text, prompt, duration) ==
    [text |-> text, prompt |-> prompt, duration |-> duration]

MORALS ==
    [kindness |-> "Kindness makes friends and brightens the world.",
     honesty |-> "Telling the truth keeps hearts light and trust strong.",
     sharing |-> "Sharing turns little joys into big ones.",
     courage |-> "Being brave means trying even when things feel new.",
     curiosity |-> "Questions open doors to wonderful discoveries."]

\* MORALS.get(moral, moral)
MoralIdea(moral) == IF moral \in DOMAIN MORALS THEN MORALS[moral] ELSE moral

Beat(name, idea) == [name |-> name, idea |-> idea]

Skeleton(moral) ==
    << Beat("Setup", "Introduce {title} in a cozy place related to {theme}."),
       Beat("Call to Adventure", "A gentle problem appears involving {theme}."),
       Beat("New Friend", "A helpful friend shares an idea."),
       Beat("Try and Learn", "They try a new way together."),
       Beat("Little Setback", "Something goes a bit wrong, but feelings are respected."),
       Beat("Brave Choice", "They breathe, think, and try again."),
       Beat("Happy Resolution", "The problem is solved kindly."),
       Beat("Moral", MoralIdea(moral)) >>

Explore == Beat("Explore", "They notice something wonderful around them.")

\* list.insert(-1, x): x goes in before the last element.
InsertBeforeLast(s, x) ==
    IF s = <<>> THEN <<x>>
    ELSE SubSeq(s, 1, Len(s) - 1) \o <<x>> \o <<s[Len(s)]>>

\* The loop left out: the skeleton is never padded.
PadBeats_Never(beats, num_scenes) == beats

\* while len(beats) < num_scenes: beats.insert(-1, ("Explore", ...))
RECURSIVE PadBeats(_, _)
PadBeats(beats, num_scenes) ==
    IF Len(beats) < num_scenes
    THEN PadBeats(InsertBeforeLast(beats, Explore), num_scenes)
    ELSE beats

StoryBeats(moral, num_scenes) == Take(PadBeats(Skeleton(moral), num_scenes), num_scenes)

\* random.seed(title + theme + moral + str(age) + str(minutes) + str(num_scenes)):
\* the stream of draws is a function of the seed and of the draw's number.
SeedOf(title, theme, moral, age, minutes, num_scenes) ==
    Len(title) * 7 + Len(theme) * 5 + age * 3 + minutes * 11 + num_scenes
      + (IF moral = "kindness" THEN 0 ELSE 1)

RandomChoice(seed, draw, choices) ==
    choices[((seed * 13 + draw * 7 + draw * draw) % Len(choices)) + 1]

Adjectives == <<"soft", "bright", "happy", "gentle", "sparkly", "cozy">>
Buddies == <<"bunny", "panda", "fox", "kitten", "puppy", "duckling">>
Places == <<"meadow", "forest", "playroom", "treehouse", "seashore", "garden">>
Colors == <<"sunny yellow", "sky blue", "leafy green", "peachy pink", "lavender">>

\* max(3.5, min(10.0, (minutes * 60) / num_scenes)), in milliseconds
BaseDur(minutes, num_scenes) ==
    Max(MinDurMs, Min(MaxDurMs, (minutes * 60000) \div num_scenes))

\* Words of an idea once {title} and {theme} are filled in.
IdeaWords(idea, title, theme) ==
    CASE idea = "Introduce {title} in a cozy place related to {theme}."
           -> 8 + WordsIn(title) + WordsIn(theme)
      [] idea = "A gentle problem appears involving {theme}."
           -> 5 + WordsIn(theme)
      [] idea = "A helpful friend shares an idea." -> 6
      [] idea = "They try a new way together." -> 6
      [] idea = "Something goes a bit wrong, but feelings are respected." -> 9
      [] idea = "They breathe, think, and try again." -> 6
      [] idea = "The problem is solved kindly." -> 5
      [] idea = "They notice something wonderful around them." -> 6
      [] OTHER -> 8

\* The scene built from the k-th beat.
RuleScene(title, theme, minutes, num_scenes, seed, beats, k) ==
    LET simple_adj == RandomChoice(seed, 4 * k - 3, Adjectives)
        buddy == RandomChoice(seed, 4 * k - 2, Buddies)
        place == RandomChoice(seed, 4 * k - 1, Places)
        color == RandomChoice(seed, 4 * k, Colors)
        idea == beats[k].idea
        line == [title |-> title, adj |-> simple_adj, buddy |-> buddy,
                 place |-> place, idea |-> idea, theme |-> theme,
                 words |-> WordsIn(title) + 8 + IdeaWords(idea, title, theme)
                             + 2 + WordsIn(theme) + 2]
        prompt == << <<"Cute children's book illustration">>,
                     <<buddy, "and child in a", place>>, <<"soft lighting">>,
                     <<"pastel colors">>, <<color>>, <<"friendly faces">>,
                     <<"simple shapes">>, <<"high contrast">>,
                     <<"clean background">> >>
    IN  Scene(line, prompt, BaseDur(minutes, num_scenes))

generate_story_rule_based(title, age, theme, moral, minutes, num_scenes) ==
    LET seed == SeedOf(title, theme, moral, age, minutes, num_scenes)
        beats == StoryBeats(moral, num_scenes)
    IN  [title |-> title \o <<":", " ", "A", " ">> \o TitleCase(theme)
                     \o <<" ", "A", "d", "v", "e", "n", "t", "u", "r", "e">>,
         scenes |-> [k \in 1..Len(beats) |->
                        RuleScene(title, theme, minutes, num_scenes, seed, beats, k)]]

(***************************************************************************)
(* The story engine backed by the Ollama service.                          *)
(*                                                                         *)
(* A reply of the service is                                               *)
(*   transport: "post_raises" (connection error, timeout), "bad_status"    *)
(*              (raise_for_status raises), "not_json" (r.json() raises),   *)
(*              "not_object" (r.json() has no .get), "ok";                 *)
(*   response:  the value under "response" of the body:                    *)
(*     kind "absent" (the default "{}" is parsed), "not_string",           *)
(*          "invalid" (json.loads raises), "not_object", "object";         *)
(*     has_title, title; scenes_kind "absent", "not_list", "list";         *)
(*     scenes: the items, each [is_object, has_text, text, has_prompt,     *)
(*             prompt].                                                    *)
(***************************************************************************)
Raise(exc) == [raised |-> exc, title |-> <<>>, scenes |-> <<>>]
Return(title, scenes) == [raised |-> "none", title |-> title, scenes |-> scenes]

DefaultPrompt == << <<"friendly illustration of the scene">> >>

\* Scene(s.get("text", ""), s.get("prompt", "friendly ..."), max(3.5, min(10.0, ...)))
LlmScene(s, minutes, num_scenes) ==
    Scene(IF s.has_text THEN s.text ELSE [llm |-> 0, words |-> 0],
          IF s.has_prompt THEN s.prompt ELSE DefaultPrompt,
          BaseDur(minutes, num_scenes))

\* The try block without "if not scenes: raise ValueError".
ParseError_EmptyAccepted(response) ==
    CASE response.kind = "not_string" -> "TypeError"
      [] response.kind = "invalid" -> "JSONDecodeError"
      [] response.kind = "not_object" -> "AttributeError"
      [] response.kind = "object" /\ response.scenes_kind = "not_list" -> "TypeError"
      [] response.kind = "object" /\ response.scenes_kind = "list"
           /\ \E k \in 1..Len(response.scenes) : ~response.scenes[k].is_object
           -> "AttributeError"
      [] OTHER -> "none"

\* The body of the try block: "none", or the exception it raises.
ParseError(response) ==
    CASE response.kind = "not_string" -> "TypeError"
      [] response.kind = "invalid" -> "JSONDecodeError"
      [] response.kind = "not_object" -> "AttributeError"
      [] response.kind = "object" /\ response.scenes_kind = "not_list" -> "TypeError"
      [] response.kind = "object" /\ response.scenes_kind = "list"
           /\ \E k \in 1..Len(response.scenes) : ~response.scenes[k].is_object
           -> "AttributeError"
      [] response.kind = "absent" \/ response.scenes_kind = "absent"
           \/ response.scenes = <<>> -> "ValueError"
      [] OTHER -> "none"

\* return data.get("title", title), scenes[:num_scenes]
ParsedStory(title, minutes, num_scenes, response) ==
    Return(IF response.has_title THEN response.title ELSE title,
           Take([k \in 1..Len(response.scenes) |->
                    LlmScene(response.scenes[k], minutes, num_scenes)],
                num_scenes))

generate_story_ollama(title, age, theme, moral, minutes, num_scenes, has_requests, reply) ==
    IF ~has_requests THEN Raise("RuntimeError")
    ELSE IF reply.transport = "post_raises" THEN Raise("ConnectionError")
    ELSE IF reply.transport = "bad_status" THEN Raise("HTTPError")
    ELSE IF reply.transport = "not_json" THEN Raise("JSONDecodeError")
    ELSE IF reply.transport = "not_object" THEN Raise("AttributeError")
    ELSE IF ParseError(reply.response) # "none"
         THEN LET s == generate_story_rule_based(title, age, theme, moral, minutes, num_scenes)
              IN  Return(s.title, s.scenes)
         ELSE ParsedStory(title, minutes, num_scenes, reply.response)

(***************************************************************************)
(* Illustrations.  An image is described by the prompt it was generated    *)
(* from and by its size.                                                   *)
(***************************************************************************)
INSTAGRAM_RES == <<1080, 1920>>
YOUTUBE_RES == <<1920, 1080>>

Image(prompt, width, height) == [prompt |-> prompt, size |-> <<width, height>>]
ImgRaise(exc) == [raised |-> exc, image |-> Image(<<>>, 0, 0)]
ImgReturn(img) == [raised |-> "none", image |-> img]

\* What the Stable Diffusion service does with one request.
SdReplies == {"post_raises", "bad_status", "not_json", "no_images", "bad_image", "image"}

sd_txt2img(prompt, width, height, sd_api, has_requests, sd_reply) ==
    IF ~sd_api \/ ~has_requests THEN ImgRaise("RuntimeError")
    ELSE CASE sd_reply = "post_raises" -> ImgRaise("ConnectionError")
           [] sd_reply = "bad_status" -> ImgRaise("HTTPError")
           [] sd_reply = "not_json" -> ImgRaise("JSONDecodeError")
           [] sd_reply = "no_images" -> ImgRaise("KeyError")
           [] sd_reply = "bad_image" -> ImgRaise("UnidentifiedImageError")
           [] OTHER -> ImgReturn(Image(prompt, width, height))

\* The fonts of the machine: whether DejaVuSans.ttf is found, and whether
\* the font ImageFont.load_default() returns has a size attribute (a
\* FreeTypeFont has one, the built-in bitmap ImageFont has none).
FontEnvs == [dejavu : BOOLEAN, default_has_size : BOOLEAN]

\* try: ImageFont.truetype("DejaVuSans.ttf", size) except: ImageFont.load_default()
LoadFont(font_env, size) ==
    IF font_env.dejavu /\ size > 0
    THEN [has_size |-> TRUE, size |-> size]
    ELSE [has_size |-> font_env.default_has_size, size |-> 10]

\* A rectangle ImageDraw accepts: x1 >= x0 and y1 >= y0.
BoxOk(x0, y0, x1, y1) == x1 >= x0 /\ y1 >= y0

fallback_illustration(prompt, width, height, font_env) ==
    LET margin == (Min(width, height) * 3) \div 100
        bubble_w == (width * 86) \div 100
        bubble_h == (height * 18) \div 100
        bx == (width - bubble_w) \div 2
        by == (height * 72) \div 100
        font == LoadFont(font_env, (bubble_h * 28) \div 100)
    IN  IF width < 0 \/ height < 0 THEN ImgRaise("ValueError")
        ELSE IF ~BoxOk(margin, margin, width - margin, height - margin)
                  \/ ~BoxOk(bx, by, bx + bubble_w, by + bubble_h)
             THEN ImgRaise("ValueError")
        ELSE IF ~font.has_size THEN ImgRaise("AttributeError")   \* font.size
        ELSE ImgReturn(Image(prompt, width, height))

make_image(prompt, resolution, sd_api, has_requests, sd_reply, font_env) ==
    LET w == resolution[1]
        h == resolution[2]
        sd == sd_txt2img(prompt, w, h, sd_api, has_requests, sd_reply)
    IN  IF sd.raised = "none" THEN sd
        ELSE fallback_illustration(prompt, w, h, font_env)

(***************************************************************************)
(* Narration.  A wav file holds the text it speaks and lasts as long as    *)
(* its words take at the engine's speaking rate.                           *)
(***************************************************************************)
TtsEngines == {"pyttsx3 (offline)", "Piper (offline)", "eSpeak (offline)"}

\* Words per minute: pyttsx3 is set to rate_wpm; the others speak at the
\* rate of their voice.
Wpm(engine) ==
    CASE engine = "Piper (offline)" -> 90
      [] engine = "eSpeak (offline)" -> 175
      [] OTHER -> RateWpm

Wav(text, engine) ==
    [text |-> text, ms |-> (text.words * 60000) \div Wpm(engine), empty |-> FALSE]

EmptyFile == [text |-> [llm |-> 0, words |-> 0], ms |-> 0, empty |-> TRUE]

\* What one run of a narration engine does: it works, it is not there (not
\* installed, not configured, init fails), or it runs and fails.
TtsOutcomes == {"ok", "unavailable", "fails"}

\* The result of a call: the exception raised, and the file left at out_wav
\* ("write" says whether the call touched the file at all).
TtsResult(exc, write, file) == [raised |-> exc, write |-> write, file |-> file]

tts_pyttsx3(text, engine, outcome) ==
    IF outcome = "ok" THEN TtsResult("none", TRUE, Wav(text, engine))
    ELSE TtsResult("RuntimeError", FALSE, EmptyFile)

\* open(wav_path, 'wb') comes before the process runs: a failing run leaves
\* an empty file.
tts_piper(text, engine, outcome) ==
    IF outcome = "unavailable" THEN TtsResult("RuntimeError", FALSE, EmptyFile)
    ELSE IF outcome = "fails" THEN TtsResult("RuntimeError", TRUE, EmptyFile)
    ELSE TtsResult("none", TRUE, Wav(text, engine))

tts_espeak(text, engine, outcome) ==
    IF outcome = "unavailable" THEN TtsResult("FileNotFoundError", FALSE, EmptyFile)
    ELSE IF outcome = "fails" THEN TtsResult("RuntimeError", FALSE, EmptyFile)
    ELSE TtsResult("none", TRUE, Wav(text, engine))

\* A narration provider that covers a failing engine with silence.
synthesize_silent(text, engine, outcome) ==
    IF outcome = "ok" THEN TtsResult("none", TRUE, Wav(text, engine))
    ELSE TtsResult("none", TRUE, [text |-> text, ms |-> 0, empty |-> FALSE])

synthesize(text, engine, outcome) ==
    IF engine = "Piper (offline)" THEN tts_piper(text, engine, outcome)
    ELSE IF engine = "eSpeak (offline)" THEN tts_espeak(text, engine, outcome)
    ELSE tts_pyttsx3(text, engine, outcome)

(***************************************************************************)
(* Clips and the timeline.                                                 *)
(***************************************************************************)
\* The requested duration alone: a longer narration would be cut.
EffectiveDuration_Requested(sc, ac) == sc.duration

\* ImageClip(img_path).set_duration(max(sc.duration, ac.duration))
EffectiveDuration(sc, ac) == Max(sc.duration, ac.ms)

\* One clip: the image (read when the clip is made), the path of its audio
\* (read when the video is written), its duration and its frame size.
Clip(img, wav_path, duration, resolution) ==
    [image |-> img, audio |-> wav_path, duration |-> duration,
     size |-> resolution, zoom_end |-> 105]

RECURSIVE SumDurations(_, _)
SumDurations(clips, k) ==
    IF k = 0 THEN 0 ELSE SumDurations(clips, k - 1) + clips[k].duration

\* A composition that starts every clip one frame before the clip ahead of
\* it ends.
concatenate_overlapping(clips) ==
    [segments |-> [k \in 1..Len(clips) |->
                      [start |-> Max(0, SumDurations(clips, k - 1) - 33 * (k - 1)),
                       end |-> SumDurations(clips, k) - 33 * (k - 1),
                       clip |-> clips[k]]],
     duration |-> SumDurations(clips, Len(clips)) - 33 * (Len(clips) - 1)]

\* concatenate_videoclips(clips, method="compose"): clip k starts where the
\* clips before it end.
concatenate_videoclips(clips) ==
    [segments |-> [k \in 1..Len(clips) |->
                      [start |-> SumDurations(clips, k - 1),
                       end |-> SumDurations(clips, k),
                       clip |-> clips[k]]],
     duration |-> SumDurations(clips, Len(clips))]

(***************************************************************************)
(* The story step of ui() and the replies of the Ollama service.           *)
(***************************************************************************)
StoryEngines == {"Built-in (rule-based)", "Ollama (local LLM)"}

\* if story_engine == "Ollama (local LLM)": try ... except ... else ...
\* The result is the story and the warning shown ("none": no warning).
StoryStep(story_engine, title, age, theme, moral, minutes, num_scenes, has_requests, reply) ==
    LET builtin == generate_story_rule_based(title, age, theme, moral, minutes, num_scenes)
        llm == generate_story_ollama(title, age, theme, moral, minutes, num_scenes,
                                     has_requests, reply)
    IN  IF story_engine = "Ollama (local LLM)"
        THEN IF llm.raised # "none"
             THEN [title |-> builtin.title, scenes |-> builtin.scenes, warning |-> llm.raised]
             ELSE [title |-> llm.title, scenes |-> llm.scenes, warning |-> "none"]
        ELSE [title |-> builtin.title, scenes |-> builtin.scenes, warning |-> "none"]

LlmTitle == <<"L", "e", "o">>

LlmWords(k) == CASE k % 3 = 1 -> 6 [] k % 3 = 2 -> 45 [] OTHER -> 20

LlmItem(k) ==
    [is_object |-> TRUE, has_text |-> TRUE, text |-> [llm |-> k, words |-> LlmWords(k)],
     has_prompt |-> TRUE, prompt |-> << <<"llm", "scene">>, <<k>> >>]

LlmItems(len) == [k \in 1..len |-> LlmItem(k)]

\* A list whose last item is not as asked: not an object, no "text", no "prompt".
LlmDefects(len) ==
    { [LlmItems(len) EXCEPT ![len] = d] :
        d \in { [LlmItem(len) EXCEPT !.is_object = FALSE],
                [LlmItem(len) EXCEPT !.has_text = FALSE],
                [LlmItem(len) EXCEPT !.has_prompt = FALSE] } }

Response(kind, has_title, scenes_kind, scenes) ==
    [kind |-> kind, has_title |-> has_title, title |-> LlmTitle,
     scenes_kind |-> scenes_kind, scenes |-> scenes]

LlmResponses(num_scenes) ==
    { Response(k, FALSE, "absent", <<>>) :
        k \in {"absent", "not_string", "invalid", "not_object"} }
      \cup { Response("object", t, k, <<>>) : t \in BOOLEAN, k \in {"absent", "not_list"} }
      \cup { Response("object", TRUE, "list", LlmItems(len)) : len \in 0..(num_scenes + 1) }
      \cup { Response("object", FALSE, "list", LlmItems(num_scenes)) }
      \cup { Response("object", TRUE, "list", l) : l \in LlmDefects(2) }

OllamaReplies(num_scenes) ==
    { [transport |-> t, response |-> Response("absent", FALSE, "absent", <<>>)] :
        t \in {"post_raises", "bad_status", "not_json", "not_object"} }
      \cup { [transport |-> "ok", response |-> r] : r \in LlmResponses(num_scenes) }

(***************************************************************************)
(* Files.  A path is a sequence of components; fs maps the paths that      *)
(* exist to what the files hold.                                           *)
(***************************************************************************)
ASSETS_DIR == <<"o", "u", "t", "p", "u", "t", "s">>
IG_SUFFIX == <<"_", "I", "G", "_", "9", "x", "1", "6">>
YT_SUFFIX == <<"_", "Y", "T", "_", "1", "6", "x", "9">>

\* f"{ASSETS_DIR}/{slugify(story_title)}_IG_9x16.mp4": directory, base name
\* and extension.
TargetPath(story_title, suffix) == <<ASSETS_DIR, slugify(story_title) \o suffix, <<"mp4">> >>

\* os.path.join(ASSETS_DIR, slugify(os.path.splitext(os.path.basename(out_path))[0]))
WorkdirOf(out_path) == <<ASSETS_DIR, slugify(out_path[2])>>

\* File names without the scene's number.
SceneFile_NoIndex(workdir, i, ext) == <<workdir[1], workdir[2], <<"scene_", 1>>, <<ext>> >>

\* os.path.join(workdir, f"scene_{i:02d}.png") and ....wav
SceneFile(workdir, i, ext) == <<workdir[1], workdir[2], <<"scene_", i>>, <<ext>> >>

(***************************************************************************)
(* State.                                                                  *)
(*   upc       where ui() is: "form", "story", "targets", "loop",          *)
(*             "building", "report", "done"                                *)
(*   form      the values submitted with the form                          *)
(*   story     story_title, scenes and the warning of the story step       *)
(*   targets   the list of (resolution, path); t the index of the loop     *)
(*   results   the list ui() collects; errors, infos: st.error, st.info    *)
(*   manifest  the paths written out at the end                            *)
(*   call      for every caller of build_video, the frame of its call      *)
(*   fs        the files under outputs/                                    *)
(*   hist      for every caller, what happened to its calls (history)      *)
(*   fn_args, fn_ret   arguments and result of one function applied alone  *)
(***************************************************************************)
VARIABLES upc, form, story, targets, t, results, errors, infos, manifest,
          call, fs, hist, fn_args, fn_ret

ui_vars == <<upc, form, story, targets, t, results, errors, infos, manifest>>
build_vars == <<call, fs, hist>>
fn_vars == <<fn_args, fn_ret>>
vars == <<upc, form, story, targets, t, results, errors, infos, manifest,
          call, fs, hist, fn_args, fn_ret>>

Titles == { <<"M", "i">>, <<"m", "i", "!">> }
FormTitles == { <<"M", "i">> }
FormMorals == {"kindness"}
Themes == { <<"s", "k", "y">> }
Morals == {"kindness", "honesty"}
PlatformChoices ==
    { {"Both"}, {"Instagram Reels (9:16)"}, {"YouTube (16:9)"}, {} }

NoForm ==
    [title |-> <<>>, age |-> 0, theme |-> <<>>, moral |-> "", minutes |-> 0,
     num_scenes |-> 0, story_engine |-> "", tts_engine |-> "", platforms |-> {}]
NoStory == [title |-> <<>>, scenes |-> <<>>, warning |-> "none"]
NoCall ==
    [pc |-> "idle", scenes |-> <<>>, resolution |-> <<0, 0>>, out_path |-> <<>>,
     tts_engine |-> "", workdir |-> <<>>, i |-> 0, clips |-> <<>>, exc |-> "none"]
NoArgs == [fn |-> "none"]
Pending == [done |-> FALSE]

UiIdle ==
    /\ upc = "form" /\ form = NoForm /\ story = NoStory
    /\ targets = <<>> /\ t = 0 /\ results = <<>> /\ errors = <<>>
    /\ infos = <<>> /\ manifest = <<>>

FnIdle == fn_args = NoArgs /\ fn_ret = Pending

\* One session of the app: nothing submitted, nothing on disk.
Init ==
    /\ UiIdle
    /\ call = [r \in {1} |-> NoCall]
    /\ fs = << >>
    /\ hist = [r \in {1} |-> <<>>]
    /\ FnIdle

(***************************************************************************)
(* build_video, as run by caller r.                                        *)
(***************************************************************************)
Log(r, e) == hist' = [hist EXCEPT ![r] = Append(@, e)]

Exists(path) == path \in DOMAIN fs
WriteFile(path, content) == fs' = (path :> content) @@ fs

\* Lines 284-288: the working directory and the empty list of clips.
Enter(r) ==
    /\ call[r].pc = "call"
    /\ call' = [call EXCEPT ![r].workdir = WorkdirOf(call[r].out_path),
                            ![r].clips = <<>>,
                            ![r].i = 1,
                            ![r].pc = IF call[r].scenes = <<>> THEN "concat" ELSE "image"]
    /\ Log(r, [ev |-> "call", path |-> call[r].out_path, scene |-> 0])
    /\ UNCHANGED <<fs, ui_vars, fn_vars>>

\* The frame after an exception leaves build_video.
Raised(c, exc) == [c EXCEPT !.pc = "raised", !.exc = exc]

\* Lines 290-292: make_image and img.save.
SceneImage(r) ==
    /\ call[r].pc = "image"
    /\ \E got \in { make_image(call[r].scenes[call[r].i].prompt, call[r].resolution,
                                 sd_api, has_requests, sd_reply, font_env) :
                        sd_api \in BOOLEAN, has_requests \in BOOLEAN,
                        sd_reply \in SdReplies, font_env \in FontEnvs } :
         LET c == call[r]
         IN  IF got.raised # "none"
             THEN /\ call' = [call EXCEPT ![r] = Raised(c, got.raised)]
                  /\ Log(r, [ev |-> "raise", path |-> c.out_path, scene |-> c.i])
                  /\ UNCHANGED fs
             ELSE /\ WriteFile(SceneFile(c.workdir, c.i, "png"), got.image)
                  /\ call' = [call EXCEPT ![r].pc = "narrate"]
                  /\ UNCHANGED hist
    /\ UNCHANGED <<ui_vars, fn_vars>>

\* Lines 294-295: synthesize.  A failing engine is noted in the history.
SceneNarrate(r) ==
    /\ call[r].pc = "narrate"
    /\ \E outcome \in TtsOutcomes :
         LET c == call[r]
             sc == c.scenes[c.i]
             wav_path == SceneFile(c.workdir, c.i, "wav")
             got == synthesize(sc.text, c.tts_engine, outcome)
             note == IF outcome # "ok"
                     THEN <<[ev |-> "tts_failed", path |-> c.out_path, scene |-> c.i]>>
                     ELSE <<>>
             end == IF got.raised # "none"
                    THEN <<[ev |-> "raise", path |-> c.out_path, scene |-> c.i]>>
                    ELSE <<>>
         IN  /\ IF got.write THEN WriteFile(wav_path, got.file) ELSE UNCHANGED fs
             /\ call' = [call EXCEPT ![r] = IF got.raised # "none"
                                            THEN Raised(c, got.raised)
                                            ELSE [c EXCEPT !.pc = "clip"]]
             /\ hist' = [hist EXCEPT ![r] = @ \o note \o end]
    /\ UNCHANGED <<ui_vars, fn_vars>>

\* A file AudioFileClip or ImageClip can open.
Readable(path) == Exists(path) /\ (("empty" \in DOMAIN fs[path]) => ~fs[path].empty)

\* Lines 297-302: the audio clip, the image clip with its duration, append.
MakeClip(r) ==
    /\ call[r].pc = "clip"
    /\ LET c == call[r]
           sc == c.scenes[c.i]
           wav_path == SceneFile(c.workdir, c.i, "wav")
           img_path == SceneFile(c.workdir, c.i, "png")
       IN  IF ~Readable(wav_path) \/ ~Readable(img_path)
           THEN /\ call' = [call EXCEPT ![r] = Raised(c, "OSError")]
                /\ Log(r, [ev |-> "raise", path |-> c.out_path, scene |-> c.i])
           ELSE /\ call' = [call EXCEPT
                      ![r].clips = Append(@, Clip(fs[img_path], wav_path,
                                                  EffectiveDuration(sc, fs[wav_path]),
                                                  c.resolution)),
                      ![r].i = @ + 1,
                      ![r].pc = IF c.i = Len(c.scenes) THEN "concat" ELSE "image"]
                /\ UNCHANGED hist
    /\ UNCHANGED <<fs, ui_vars, fn_vars>>

\* What write_videofile does: it writes the file, it cannot open the output
\* path, or the encoder fails on the way and leaves a partial file.
EncodeOutcomes == {"ok", "bad_path", "encoder_fails"}

FPS == 30

\* The file write_videofile leaves: every segment with its image, the audio
\* read from the clip's wav file, and its place on the timeline.
Video(final, resolution, partial) ==
    [segments |-> [k \in 1..Len(final.segments) |->
                      [start |-> final.segments[k].start,
                       end |-> final.segments[k].end,
                       image |-> final.segments[k].clip.image,
                       audio |-> fs[final.segments[k].clip.audio]]],
     duration |-> final.duration, fps |-> FPS, size |-> resolution,
     partial |-> partial]

\* Lines 304-309: concatenate, write the video, close, return.
Encode(r) ==
    /\ call[r].pc = "concat"
    /\ \E outcome \in EncodeOutcomes :
         LET c == call[r]
             final == concatenate_videoclips(c.clips)
             audio_ok == \A k \in 1..Len(c.clips) : Readable(c.clips[k].audio)
         IN  IF c.clips = <<>> \/ ~audio_ok \/ outcome # "ok"
             THEN /\ call' = [call EXCEPT ![r] = Raised(c, "EncodeError")]
                  /\ Log(r, [ev |-> "raise", path |-> c.out_path, scene |-> 0])
                  /\ IF c.clips # <<>> /\ audio_ok /\ outcome = "encoder_fails"
                     THEN WriteFile(c.out_path, Video(final, c.resolution, TRUE))
                     ELSE UNCHANGED fs
             ELSE /\ WriteFile(c.out_path, Video(final, c.resolution, FALSE))
                  /\ call' = [call EXCEPT ![r].pc = "returned"]
                  /\ Log(r, [ev |-> "return", path |-> c.out_path, scene |-> 0])
    /\ UNCHANGED <<ui_vars, fn_vars>>

(***************************************************************************)
(* ui(): one press of "Generate Story & Render Video".                     *)
(***************************************************************************)
Forms ==
    [title : FormTitles, age : {DefaultAge}, theme : Themes, moral : FormMorals,
     minutes : {MinMinutes}, num_scenes : MinNumScenes..MaxNumScenes,
     story_engine : StoryEngines, tts_engine : TtsEngines,
     platforms : PlatformChoices]

\* Lines 320-341: the form is submitted.
Submit ==
    /\ upc = "form"
    /\ form' \in Forms
    /\ upc' = "story"
    /\ UNCHANGED <<story, targets, t, results, errors, infos, manifest,
                   build_vars, fn_vars>>

\* Lines 342-351: the story step.
WriteStory ==
    /\ upc = "story"
    /\ story' \in { StoryStep(form.story_engine, form.title, form.age, form.theme,
                                form.moral, form.minutes, form.num_scenes,
                                has_requests, reply) :
                        has_requests \in BOOLEAN,
                        reply \in OllamaReplies(form.num_scenes) }
    /\ upc' = "targets"
    /\ UNCHANGED <<form, targets, t, results, errors, infos, manifest,
                   build_vars, fn_vars>>

\* Lines 356-360.
TargetsOf(platforms, story_title) ==
    (IF "Both" \in platforms \/ "Instagram Reels (9:16)" \in platforms
     THEN <<[res |-> INSTAGRAM_RES, path |-> TargetPath(story_title, IG_SUFFIX)]>>
     ELSE <<>>)
    \o
    (IF "Both" \in platforms \/ "YouTube (16:9)" \in platforms
     THEN <<[res |-> YOUTUBE_RES, path |-> TargetPath(story_title, YT_SUFFIX)]>>
     ELSE <<>>)

\* Lines 356-362: the targets and the empty list of results.
ListTargets ==
    /\ upc = "targets"
    /\ targets' = TargetsOf(form.platforms, story.title)
    /\ results' = <<>>
    /\ t' = 1
    /\ upc' = "loop"
    /\ UNCHANGED <<form, story, errors, infos, manifest, build_vars, fn_vars>>

\* Lines 363-366: the next target is announced and build_video is called.
StartTarget ==
    /\ upc = "loop"
    /\ t <= Len(targets)
    /\ infos' = Append(infos, targets[t].path)
    /\ call' = [call EXCEPT ![1] =
                  [NoCall EXCEPT !.pc = "call", !.scenes = story.scenes,
                                 !.resolution = targets[t].res,
                                 !.out_path = targets[t].path,
                                 !.tts_engine = form.tts_engine]]
    /\ upc' = "building"
    /\ UNCHANGED <<form, story, targets, t, results, errors, manifest,
                   fs, hist, fn_vars>>

\* Lines 367-368: build_video returned: st.video(out); results.append(out).
Collect ==
    /\ upc = "building"
    /\ call[1].pc = "returned"
    /\ results' = Append(results, call[1].out_path)
    /\ t' = t + 1
    /\ call' = [call EXCEPT ![1] = NoCall]
    /\ upc' = "loop"
    /\ UNCHANGED <<form, story, targets, errors, infos, manifest, fs, hist, fn_vars>>

\* A handler that reports the failure and gives up on the other targets.
Catch_Abort ==
    /\ upc = "building"
    /\ call[1].pc = "raised"
    /\ errors' = Append(errors, [path |-> targets[t].path, exc |-> call[1].exc])
    /\ t' = t + 1
    /\ call' = [call EXCEPT ![1] = NoCall]
    /\ manifest' = results
    /\ upc' = "done"
    /\ UNCHANGED <<form, story, targets, results, infos, fs, hist, fn_vars>>

\* Lines 369-370: except Exception: st.error(...); the loop goes on.
Catch ==
    /\ upc = "building"
    /\ call[1].pc = "raised"
    /\ errors' = Append(errors, [path |-> targets[t].path, exc |-> call[1].exc])
    /\ t' = t + 1
    /\ call' = [call EXCEPT ![1] = NoCall]
    /\ upc' = "loop"
    /\ UNCHANGED <<form, story, targets, results, infos, manifest, fs, hist, fn_vars>>

\* Lines 372-375: after the loop, the saved files are listed.
Report ==
    /\ upc = "loop"
    /\ t > Len(targets)
    /\ manifest' = results
    /\ upc' = "done"
    /\ UNCHANGED <<form, story, targets, t, results, errors, infos,
                   build_vars, fn_vars>>

Build(r) ==
    Enter(r) \/ SceneImage(r) \/ SceneNarrate(r) \/ MakeClip(r) \/ Encode(r)

Next ==
    \/ Submit \/ WriteStory \/ ListTargets \/ StartTarget
    \/ Collect \/ Catch \/ Report
    \/ Enter(1) \/ SceneImage(1) \/ SceneNarrate(1) \/ MakeClip(1) \/ Encode(1)

Spec == Init /\ [][Next]_vars

(***************************************************************************)
(* Several callers of build_video at once (sessions of the app, workers of *)
(* a queue), each with the story and the target of its own session.        *)
(***************************************************************************)
Runs == 1..MaxRuns

ConcCalls ==
    { [NoCall EXCEPT
         !.pc = "call",
         !.scenes = generate_story_rule_based(title, DefaultAge, <<"s", "k", "y">>,
                                              moral, 1, n).scenes,
         !.resolution = INSTAGRAM_RES,
         !.out_path = TargetPath(
             generate_story_rule_based(title, DefaultAge, <<"s", "k", "y">>,
                                       moral, 1, n).title, IG_SUFFIX),
         !.tts_engine = engine] :
        title \in Titles \cup { <<"L">> }, moral \in {"kindness"}, n \in 1..2,
        engine \in {"pyttsx3 (offline)", "Piper (offline)"} }

InitConc ==
    /\ UiIdle
    /\ call \in [Runs -> ConcCalls]
    /\ fs = << >>
    /\ hist = [r \in Runs |-> <<>>]
    /\ FnIdle

NextConc == \E r \in Runs : Build(r)

SpecConc == InitConc /\ [][NextConc]_vars

(***************************************************************************)
(* The story engines and the story step, applied alone.                    *)
(***************************************************************************)
StoryArgs ==
    UNION { [fn : {"story"}, title : Titles, age : {DefaultAge}, theme : Themes,
             moral : Morals \cup {"be patient"}, minutes : 1..MaxMinutes,
             num_scenes : {n}, has_requests : BOOLEAN,
             reply : OllamaReplies(n)] : n \in 1..MaxStoryScenes }

InitStory ==
    /\ UiIdle
    /\ call = [r \in {1} |-> NoCall]
    /\ fs = << >>
    /\ hist = [r \in {1} |-> <<>>]
    /\ fn_args \in StoryArgs
    /\ fn_ret = Pending

Returned(fn, out) == [done |-> TRUE, fn |-> fn, out |-> out]

RunRuleBased ==
    /\ fn_args.fn = "story" /\ ~fn_ret.done
    /\ fn_ret' = Returned("generate_story_rule_based",
                    generate_story_rule_based(fn_args.title, fn_args.age, fn_args.theme,
                        fn_args.moral, fn_args.minutes, fn_args.num_scenes))
    /\ UNCHANGED <<fn_args, ui_vars, build_vars>>

RunOllama ==
    /\ fn_args.fn = "story" /\ ~fn_ret.done
    /\ fn_ret' = Returned("generate_story_ollama",
                    generate_story_ollama(fn_args.title, fn_args.age, fn_args.theme,
                        fn_args.moral, fn_args.minutes, fn_args.num_scenes,
                        fn_args.has_requests, fn_args.reply))
    /\ UNCHANGED <<fn_args, ui_vars, build_vars>>

RunStoryStep ==
    /\ fn_args.fn = "story" /\ ~fn_ret.done
    /\ fn_ret' = Returned("ui",
                    StoryStep("Ollama (local LLM)", fn_args.title, fn_args.age,
                        fn_args.theme, fn_args.moral, fn_args.minutes,
                        fn_args.num_scenes, fn_args.has_requests, fn_args.reply))
    /\ UNCHANGED <<fn_args, ui_vars, build_vars>>

NextStory == RunRuleBased \/ RunOllama \/ RunStoryStep

SpecStory == InitStory /\ [][NextStory]_vars

(***************************************************************************)
(* The illustration provider, applied alone.                               *)
(***************************************************************************)
Prompts ==
    { <<>>,
      << <<"llm", "scene">>, <<1>> >>,
      DefaultPrompt }

ImageArgs ==
    [fn : {"image"}, prompt : Prompts, resolution : {INSTAGRAM_RES, YOUTUBE_RES},
     sd_api : BOOLEAN, has_requests : BOOLEAN, sd_reply : SdReplies,
     font_env : FontEnvs]

InitImage ==
    /\ UiIdle
    /\ call = [r \in {1} |-> NoCall]
    /\ fs = << >>
    /\ hist = [r \in {1} |-> <<>>]
    /\ fn_args \in ImageArgs
    /\ fn_ret = Pending

RunMakeImage ==
    /\ fn_args.fn = "image" /\ ~fn_ret.done
    /\ fn_ret' = Returned("make_image",
                    make_image(fn_args.prompt, fn_args.resolution, fn_args.sd_api,
                               fn_args.has_requests, fn_args.sd_reply, fn_args.font_env))
    /\ UNCHANGED <<fn_args, ui_vars, build_vars>>

RunFallback ==
    /\ fn_args.fn = "image" /\ ~fn_ret.done
    /\ fn_ret' = Returned("fallback_illustration",
                    fallback_illustration(fn_args.prompt, fn_args.resolution[1],
                                          fn_args.resolution[2], fn_args.font_env))
    /\ UNCHANGED <<fn_args, ui_vars, build_vars>>

NextImage == RunMakeImage \/ RunFallback

SpecImage == InitImage /\ [][NextImage]_vars
(***************************************************************************)
(* Properties.                                                             *)
(***************************************************************************)
Paths(seq) == [k \in 1..Len(seq) |-> seq[k].path]
IsCall(e) == e.ev = "call"
IsReturn(e) == e.ev = "return"
IsRaise(e) == e.ev = "raise"
IsEnd(e) == e.ev \in {"return", "raise"}
InSeq(v, seq) == \E k \in 1..Len(seq) : seq[k] = v

\* C1: when ui() is through its loop, build_video was called once for every
\* target, in the order of the list; the results are the paths of the calls
\* that returned, the errors those of the calls that raised, each in order;
\* and an exception of build_video always finds the handler of the loop.
ExportIsolation ==
    /\ (upc = "building" /\ call[1].pc = "raised") => ENABLED Catch
    /\ upc = "done" =>
         /\ Paths(SelectSeq(hist[1], IsCall)) = Paths(targets)
         /\ infos = Paths(targets)
         /\ Len(SelectSeq(hist[1], IsEnd)) = Len(targets)
         /\ results = Paths(SelectSeq(hist[1], IsReturn))
         /\ Paths(errors) = Paths(SelectSeq(hist[1], IsRaise))
         /\ manifest = results

\* The first of two targets failed, the second is in the results.
ExportIsolationWitness ==
    /\ upc = "done"
    /\ Len(targets) = 2
    /\ Paths(errors) = <<targets[1].path>>
    /\ results = <<targets[2].path>>
    /\ Exists(targets[2].path)

\* C2: every clip build_video has made lasts as long as the longer of the
\* scene's requested duration and the scene's narration: never shorter than
\* either, and equal to one of them.
EffectiveDurationIsMax ==
    \A r \in DOMAIN call : \A k \in 1..Len(call[r].clips) :
        LET clip == call[r].clips[k]
            sc == call[r].scenes[k]
            narration == fs[SceneFile(call[r].workdir, k, "wav")]
        IN  /\ narration.text = sc.text
            /\ clip.duration >= sc.duration
            /\ clip.duration >= narration.ms
            /\ clip.duration \in {sc.duration, narration.ms}

\* One call holds a clip stretched to a longer narration and a clip kept at
\* the requested duration over a shorter narration.
EffectiveDurationWitness ==
    \E k1, k2 \in 1..Len(call[1].clips) :
        /\ call[1].clips[k1].duration > call[1].scenes[k1].duration
        /\ call[1].clips[k2].duration
             > fs[SceneFile(call[1].workdir, k2, "wav")].ms

Videos == { p \in DOMAIN fs : Len(p) = 3 }

\* C3: when build_video concatenates, it holds one clip per scene, and the
\* k-th clip shows the image made from the k-th scene's prompt and plays the
\* narration of the k-th scene's text; so does the k-th segment of every
\* video written.
SceneOrderPreserved ==
    /\ \A r \in DOMAIN call : call[r].pc \in {"concat", "returned"} =>
         /\ Len(call[r].clips) = Len(call[r].scenes)
         /\ \A k \in 1..Len(call[r].clips) :
              /\ call[r].clips[k].image.prompt = call[r].scenes[k].prompt
              /\ fs[call[r].clips[k].audio].text = call[r].scenes[k].text
    /\ \A p \in Videos :
         /\ Len(fs[p].segments) = Len(story.scenes)
         /\ \A k \in 1..Len(fs[p].segments) :
              /\ fs[p].segments[k].image.prompt = story.scenes[k].prompt
              /\ fs[p].segments[k].audio.text = story.scenes[k].text
              /\ k > 1 => fs[p].segments[k].start >= fs[p].segments[k - 1].end

\* A finished video of several scenes with different texts.
SceneOrderWitness ==
    \E p \in Videos :
        /\ ~fs[p].partial
        /\ InSeq(p, results)
        /\ Len(fs[p].segments) >= 2
        /\ fs[p].segments[1].audio.text # fs[p].segments[2].audio.text

RECURSIVE ExpectedTotal(_, _, _)
ExpectedTotal(scs, engine, k) ==
    IF k = 0 THEN 0
    ELSE ExpectedTotal(scs, engine, k - 1)
           + (IF scs[k].duration >= Wav(scs[k].text, engine).ms
              THEN scs[k].duration ELSE Wav(scs[k].text, engine).ms)

\* C4: every video written to the end lasts the sum, over the scenes, of the
\* longer of requested duration and narration; its first segment starts at
\* 0, every other one where the one before ends, the last ends with it.
TimelineIsSum ==
    \A p \in Videos : ~fs[p].partial =>
        LET v == fs[p]
            n == Len(v.segments)
        IN  /\ v.duration = ExpectedTotal(story.scenes, form.tts_engine, Len(story.scenes))
            /\ n >= 1
            /\ v.segments[1].start = 0
            /\ v.segments[n].end = v.duration
            /\ \A k \in 2..n : v.segments[k].start = v.segments[k - 1].end

\* A finished video of several scenes, one of them longer than requested.
TimelineWitness ==
    \E p \in Videos :
        /\ ~fs[p].partial
        /\ Len(fs[p].segments) >= 3
        /\ \E k \in 1..Len(fs[p].segments) :
             fs[p].segments[k].end - fs[p].segments[k].start > story.scenes[k].duration

(***************************************************************************)
(* The story engines.                                                      *)
(***************************************************************************)
StoryRan(fn) == fn_args.fn = "story" /\ fn_ret.done /\ fn_ret.fn = fn

BuiltinStory ==
    generate_story_rule_based(fn_args.title, fn_args.age, fn_args.theme,
                              fn_args.moral, fn_args.minutes, fn_args.num_scenes)

TransportFailure == ~fn_args.has_requests \/ fn_args.reply.transport # "ok"

\* The response does not parse to an object with a list of at least one
\* scene object.
BadResponse ==
    LET resp == fn_args.reply.response
    IN  \/ resp.kind # "object"
        \/ resp.scenes_kind # "list"
        \/ resp.scenes = <<>>
        \/ \E k \in 1..Len(resp.scenes) : ~resp.scenes[k].is_object

OllamaSceneCount ==
    (StoryRan("generate_story_ollama") /\ fn_ret.out.raised = "none") =>
        Len(fn_ret.out.scenes) = fn_args.num_scenes

\* The idea of the k-th of n beats: the skeleton's first seven, the fillers,
\* and the moral in the last place once there are eight or more.
ExpectedIdea(moral, n, k) ==
    IF k <= 7 THEN Skeleton(moral)[k].idea
    ELSE IF k = n THEN MoralIdea(moral)
    ELSE Explore.idea

\* C7: generate_story_rule_based returns exactly num_scenes scenes, one per
\* beat of the padded and cut skeleton, in the skeleton's order.
RuleBasedSceneCount ==
    StoryRan("generate_story_rule_based") =>
        /\ Len(fn_ret.out.scenes) = fn_args.num_scenes
        /\ \A k \in 1..Len(fn_ret.out.scenes) :
             fn_ret.out.scenes[k].text.idea
               = ExpectedIdea(fn_args.moral, fn_args.num_scenes, k)

\* More scenes than the skeleton has beats.
RuleBasedWitness ==
    /\ StoryRan("generate_story_rule_based")
    /\ fn_args.num_scenes > 8
    /\ Len(fn_ret.out.scenes) = fn_args.num_scenes
    /\ fn_ret.out.scenes[8].text.idea = Explore.idea

(***************************************************************************)
(* Narration failure.                                                      *)
(***************************************************************************)
\* C8: whenever a narration engine failed on scene k of a target, the call
\* of build_video raised right there: no clip, image or narration exists for
\* scene k or a later scene, no usable narration file stands in for scene
\* k's, no video was written for the target, the target is not in the
\* results, and it is reported as failed once the handler has run.
NarrationFailureFatal ==
    \A j \in 1..Len(hist[1]) : hist[1][j].ev = "tts_failed" =>
        LET e == hist[1][j]
            dir == WorkdirOf(e.path)
        IN  /\ j < Len(hist[1])
            /\ hist[1][j + 1] = [ev |-> "raise", path |-> e.path, scene |-> e.scene]
            /\ ~Readable(SceneFile(dir, e.scene, "wav"))
            /\ \A k \in (e.scene + 1)..Len(story.scenes) :
                 /\ ~Exists(SceneFile(dir, k, "png"))
                 /\ ~Exists(SceneFile(dir, k, "wav"))
            /\ ~Exists(e.path)
            /\ ~InSeq(e.path, results)
            /\ IF call[1].out_path = e.path
               THEN call[1].pc = "raised" /\ Len(call[1].clips) = e.scene - 1
               ELSE InSeq(e.path, Paths(errors))

\* Narration failed on a later scene of the first target; the run went on
\* and ended with the second target in the results.
NarrationFailureWitness ==
    /\ upc = "done"
    /\ Len(targets) = 2
    /\ \E j \in 1..Len(hist[1]) :
         /\ hist[1][j].ev = "tts_failed"
         /\ hist[1][j].scene >= 2
         /\ hist[1][j].path = targets[1].path
    /\ results = <<targets[2].path>>

(***************************************************************************)
(* The illustration provider.                                              *)
(***************************************************************************)
\* C9: make_image never raises and returns an image of the requested size.
MakeImageNeverRaises ==
    (fn_args.fn = "image" /\ fn_ret.done /\ fn_ret.fn = "make_image") =>
        /\ fn_ret.out.raised = "none"
        /\ fn_ret.out.image.size = fn_args.resolution

(***************************************************************************)
(* Concurrent callers.                                                     *)
(***************************************************************************)
Live(r) == call[r].pc \in {"image", "narrate", "clip", "concat"}

\* The paths a call of build_video writes and reads.
PathsOf(r) ==
    { SceneFile(call[r].workdir, k, ext) :
        k \in 1..Len(call[r].scenes), ext \in {"png", "wav"} }
      \cup { call[r].out_path }

\* C10: two calls of build_video that are under way at the same time share
\* no intermediate file and no output file.
WorkdirExclusive ==
    \A r1, r2 \in DOMAIN call :
        (r1 # r2 /\ Live(r1) /\ Live(r2)) => PathsOf(r1) \cap PathsOf(r2) = {}
====
